---- MODULE Spec2Model ----
(***************************************************************************)
(* Model of the network-genealogy loader of @truffle/db                    *)
(* (src/packages/db/src/meta/graph/types.ts, lines 107-359): the generator *)
(* process, the pure collectNetworks, the search loop findRelation, the    *)
(* Store query queryNextPossiblyRelatedNetworks and the chain validator    *)
(* findMatchingCandidateOnChain.  One action is one stretch of generator   *)
(* code between two positions named in pc; the effects (Store query,       *)
(* web3 request, load) are answered by the environment.                    *)
(***************************************************************************)
EXTENDS Integers, Sequences, FiniteSets, TLC

\* ---------------------------------------------------------------- bounds
\* longest input batch (options.networks) run against a Store that holds
\* candidates
MaxBatchLen == 2
\* longest input batch run against a Store that holds no candidate
MaxLoneBatchLen == 3
\* longest page of candidates the Store returns for one query
MaxCand == 3

\* the runs are followed up to this value of the counter fragmentIndex, that is
\* up to this many Store queries of the whole module
MaxFragmentIndex == 7
\* most Store queries a second invocation of process sends in between
MaxPeerQueries == 2

\* ------------------------------------------------------------- universe
NetworkIds == {"n1", "n2", "n3"}

\* n1 and n2 are distinct networks recorded at the same height; n3 is later
\* and carries the same hash text as n1, at another height.
HeightOf(id) == IF id = "n3" THEN 2 ELSE 1

HashOf(id) == IF id = "n2" THEN "0xbb" ELSE "0xaa"

Heights == {1, 2}

\* a Resource<"networks"> with the fields the code reads
Network(id) ==
  [id |-> id, historicBlock |-> [height |-> HeightOf(id), hash |-> HashOf(id)]]

Networks == {Network(id) : id \in NetworkIds}

\* JavaScript's undefined: an absent batch entry, a search without result
undefined == [undefined |-> TRUE]

\* toIdObject of @truffle/db/resources: keeps the id, drops every other field
toIdObject(resource) == [id |-> resource.id]

RECURSIVE SeqsUpTo(_, _)
\* all sequences over S of length at most n
SeqsUpTo(S, n) ==
  IF n = 0 THEN {<<>>}
  ELSE LET shorter == SeqsUpTo(S, n - 1)
       IN  shorter \cup {Append(s, x) : s \in {t \in shorter : Len(t) = n - 1}, x \in S}

\* ------------------------------------------------- collectNetworks (pure)
\* one batch entry: a network or undefined
BatchEntries == Networks \cup {undefined}

\* options.networks.filter(network => !!network)
FilterPresent(batch) == SelectSeq(batch, LAMBDA network : network # undefined)

\* a comparator with its operands swapped: the sort becomes descending
CompareSwapped(a, b) == b.historicBlock.height - a.historicBlock.height

\* the comparator of the sort: a.historicBlock.height - b.historicBlock.height
Compare(a, b) == a.historicBlock.height - b.historicBlock.height

RECURSIVE InsertSorted(_, _)
\* x placed behind every element that does not compare greater than it
InsertSorted(sorted, x) ==
  IF sorted = <<>> THEN <<x>>
  ELSE IF Compare(Head(sorted), x) <= 0
       THEN <<Head(sorted)>> \o InsertSorted(Tail(sorted), x)
       ELSE <<x>> \o sorted

RECURSIVE SortByHeight(_)
\* Array.prototype.sort with Compare: a stable sort (ECMAScript 2019)
SortByHeight(s) ==
  IF s = <<>> THEN <<>>
  ELSE InsertSorted(SortByHeight(SubSeq(s, 1, Len(s) - 1)), s[Len(s)])

\* the filtered, sorted batch before .map(toIdObject): the records whose
\* position i is networks[i] of collectNetworks
SortedResources(batch) == SortByHeight(FilterPresent(batch))

\* a reducer that never moves its ancestor on: every edge starts at networks[0]
ReduceStepKeepingAncestor(acc, descendant) ==
  [ancestor |-> acc.ancestor,
   networkGenealogies |->
     IF acc.ancestor.id = descendant.id
     THEN acc.networkGenealogies
     ELSE Append(acc.networkGenealogies,
                 [ancestor |-> acc.ancestor, descendant |-> descendant])]

\* the reducer of lines 205-214: the descendant becomes the next ancestor, and
\* a pair is recorded unless its two ids are equal
ReduceStep(acc, descendant) ==
  [ancestor |-> descendant,
   networkGenealogies |->
     IF acc.ancestor.id = descendant.id
     THEN acc.networkGenealogies
     ELSE Append(acc.networkGenealogies,
                 [ancestor |-> acc.ancestor, descendant |-> descendant])]

RECURSIVE Reduce(_, _)
\* Array.prototype.reduce over rest, from accumulator acc
Reduce(acc, rest) ==
  IF rest = <<>> THEN acc ELSE Reduce(ReduceStep(acc, Head(rest)), Tail(rest))

collectNetworks(batch) ==
  LET sorted   == SortedResources(batch)
      networks == [i \in 1..Len(sorted) |-> toIdObject(sorted[i])]
  IN  IF Len(networks) < 1
      THEN [networks |-> <<>>, networkGenealogies |-> <<>>]
      ELSE [networks |-> networks,
            networkGenealogies |->
              Reduce([ancestor |-> networks[1], networkGenealogies |-> <<>>],
                     Tail(networks)).networkGenealogies]

\* ---------------------------------------------------------------- state
VARIABLES
  input,               \* options.networks, the sparse batch process is given
  chain,               \* what the connected chain answers at each height
  store,               \* the networks the Store holds as possible relations
  disableIndex,        \* options.disableIndex
  fragmentIndex,       \* the module-level counter of line 277
  peerQueries,         \* how many Store queries another invocation of process, run
                       \*   in the same module, has sent so far
  pc,                  \* position of the process generator
  networks,            \* process: the sorted batch (IdObjects)
  networkGenealogies,  \* process: the edge list, pairwise edges first
  idx,                 \* process: 0 for the search of line 126, else the loop index
  relation,            \* findRelation: "ancestor" or "descendant"
  alreadyTried,        \* findRelation: the exclusion list
  candidates,          \* findRelation: the page the last Store query returned
  candIdx,             \* findMatchingCandidateOnChain: the candidate being asked
  matchingCandidate,   \* findRelation: what the validator returned
  result,              \* process: what the last findRelation returned
  error,               \* the error the process invocation failed with
  loaded,              \* the edge list handed to resources.load
  loadCalls,           \* how many times resources.load was invoked
  thrown,              \* history: the failure an effect raised into the generator
  pairwise,            \* history: the edges collectNetworks returned on line 123
  confirmed,           \* history: ids whose recorded hash a chain response equalled
                       \*   during the current findRelation call
  found,               \* history: the loop's searches that returned a network, and
                       \*   whether a chain response had confirmed that network
  searches,            \* history: the findRelation calls process has made
  sent,                \* history: the Store queries of the current findRelation call
  returnedTried,       \* history: the alreadyTried lists the Store returned to it
  asked,               \* history: the web3 requests made for the current page
  validated            \* history: the candidate ids the current findRelation call
                       \*   has asked the chain about

vars ==
  <<input, chain, store, pc, networks, networkGenealogies, idx, relation, alreadyTried,
    candidates, candIdx, matchingCandidate, result, error, loaded, loadCalls,
    thrown, pairwise, confirmed, found, disableIndex, fragmentIndex, searches, sent,
    returnedTried, asked, validated, peerQueries>>

\* the invocation's argument and its environment, which it never writes (the
\* progress of another invocation included)
envVars == <<input, chain, store, disableIndex, peerQueries>>

\* the variables of one findRelation call
searchVars == <<relation, alreadyTried, candidates, candIdx, matchingCandidate>>

\* the history variables
historyVars == <<thrown, pairwise, confirmed, found>>

\* the history of the effects of one findRelation call
traceVars == <<sent, returnedTried, asked, validated>>

NoError == "none"

\* ---------------------------------------------------------- environment
\* the chain has no block at a height
NoBlock == "no block"

\* the hashes a block is reported with; "0xAA" is the hash "0xaa" written in
\* upper-case hex digits
BlockHashes == {"0xaa", "0xAA", "0xbb"}

\* the chains the client may be connected to: the chain n1 was recorded on or a
\* fork of it above height 1, of any length (a block hash at every height up to
\* the chain's length, no block above it); n2 was recorded on another chain
Chains ==
  {c \in [Heights -> BlockHashes \cup {NoBlock}] :
     /\ c[1] \in {"0xaa", NoBlock}
     /\ \A h, k \in Heights : (h < k /\ c[h] = NoBlock) => c[k] = NoBlock}

\* the responses the generator may be resumed with for
\* eth_getBlockByNumber(height): the block's hash, or for a missing block either
\* no response object or a response whose result is null
ChainResponses(height) ==
  IF chain[height] = NoBlock
  THEN {[present |-> FALSE, result |-> [present |-> FALSE, hash |-> NoBlock]],
        [present |-> TRUE, result |-> [present |-> FALSE, hash |-> NoBlock]]}
  ELSE {[present |-> TRUE, result |-> [present |-> TRUE, hash |-> chain[height]]]}

RECURSIVE DistinctSeqs(_, _)
\* the sequences of at most n elements of S, none of them twice
DistinctSeqs(S, n) ==
  IF n = 0 THEN {<<>>}
  ELSE {<<>>} \cup UNION {{<<x>> \o t : t \in DistinctSeqs(S \ {x}, n - 1)} : x \in S}

\* the pages a Store that honours the exclusion list may return: candidates it
\* holds that are not yet excluded, none of them twice, at most MaxCand of them
Pages(excluded) ==
  DistinctSeqs({c \in store : \A j \in 1..Len(excluded) : c.id # excluded[j].id}, MaxCand)

\* the alreadyTried a Store returns with a page, as the selection
\* alreadyTried { id } of lines 319-321 reads it: the list it was sent, then the
\* networks of the page, each by its id
NextAlreadyTried(excluded, page) ==
  excluded \o [i \in 1..Len(page) |-> [id |-> page[i].id]]

\* ------------------------------------------------------ code, as operators
\* a comparison that accepts any block found at the height, whatever its hash
MatchesAnyBlock(response, candidate) ==
  /\ response.present
  /\ response.result.present

\* lines 351-355: response && response.result && response.result.hash === hash
Matches(response, candidate) ==
  /\ response.present
  /\ response.result.present
  /\ response.result.hash = candidate.historicBlock.hash

\* a validator that returns the last candidate of the page on a match
LastCandidate(cands, i) == toIdObject(cands[Len(cands)])

\* line 356: the candidate the validator returns on a match at position i
MatchedCandidate(cands, i) == toIdObject(cands[i])

\* an ancestor edge with its two ends swapped
AncestorEdgeSwapped(ancestor, network) == [ancestor |-> network, descendant |-> ancestor]

\* lines 135-138: the edge pushed for a known ancestor of network
AncestorEdge(ancestor, network) == [ancestor |-> ancestor, descendant |-> network]

\* lines 144-147: the edge pushed for a known descendant of network
DescendantEdge(network, descendant) == [ancestor |-> network, descendant |-> descendant]

\* what the Store query effect is resumed with: a result, or a failure
StoreResult(page, tried) == [failed |-> FALSE, networks |-> page, alreadyTried |-> tried]

StoreFailure == [failed |-> TRUE, networks |-> <<>>, alreadyTried |-> <<>>]

\* a catch block that turns the failure into an empty page and goes on
queryNextSwallowingFailure(answer) ==
  IF answer.failed
  THEN [threw |-> NoError, networks |-> <<>>, alreadyTried |-> <<>>]
  ELSE [threw |-> NoError, networks |-> answer.networks,
        alreadyTried |-> answer.alreadyTried]

\* a query function that hands back the page without the Store's alreadyTried
queryNextDroppingTried(answer) ==
  IF answer.failed
  THEN [threw |-> "TypeError", networks |-> <<>>, alreadyTried |-> <<>>]
  ELSE [threw |-> NoError, networks |-> answer.networks, alreadyTried |-> <<>>]

\* lines 297-331: the failure is caught and logged, result stays undefined, and
\* reading result.networks on line 330 throws a TypeError
queryNextPossiblyRelatedNetworks(answer) ==
  IF answer.failed
  THEN [threw |-> "TypeError", networks |-> <<>>, alreadyTried |-> <<>>]
  ELSE [threw |-> NoError, networks |-> answer.networks,
        alreadyTried |-> answer.alreadyTried]

\* a handler around the yield of line 344 that takes a failed request for a
\* candidate that did not match
CaughtInValidator(failure) == NoError

\* lines 343-348: the yield of the web3 request stands in no try block, so a
\* failure the request is resumed with leaves the validator as it came
RaisedInValidator(failure) == failure

\* lines 288-289 and 244-245: the field of Network the query reads
QueryField(rel) ==
  IF rel = "ancestor" THEN "possibleAncestors" ELSE "possibleDescendants"

\* a query document that always carries the empty exclusion list
StoreQueryWithoutTried(rel, network, tried, disable, index) ==
  [type |-> "get", resource |-> "networks", id |-> network.id,
   fragment |-> <<"Possible", rel, index>>, field |-> QueryField(rel),
   alreadyTried |-> <<>>, disableIndex |-> disable]

\* lines 299-325: the resources.get effect: the collection, the id, and the
\* parts the template of the query document is filled with (the fragment's name
\* Possible_<relation>s_<index>, the field, JSON.stringify(alreadyTried), and
\* whether "disableIndex: true" is written)
StoreQuery(rel, network, tried, disable, index) ==
  [type |-> "get", resource |-> "networks", id |-> network.id,
   fragment |-> <<"Possible", rel, index>>, field |-> QueryField(rel),
   alreadyTried |-> tried, disableIndex |-> disable]

\* a request for the block at height 1, whatever the candidate's height
Web3RequestAtHeightOne(candidate) ==
  [type |-> "web3", method |-> "eth_getBlockByNumber", params |-> <<1, FALSE>>]

\* lines 344-348: the web3 effect the validator yields for a candidate
Web3Request(candidate) ==
  [type |-> "web3", method |-> "eth_getBlockByNumber",
   params |-> <<candidate.historicBlock.height, FALSE>>]

\* a loop that goes on only behind a page of two candidates or more
LoopAgainOnLongPage(cands) == Len(cands) > 1

\* line 272: while (candidates.length > 0)
LoopAgain(cands) == Len(cands) > 0

\* a loop over the networks that ends behind the first of them
LoopDoneAfterFirst(i, n) == i >= 1

\* line 131: the for-of loop over networks has run for its last element
LoopDone(i, n) == i >= n

\* networks[i] of a JavaScript array, i counted from 1 here: undefined outside
ElementAt(array, i) == IF i \in 1..Len(array) THEN array[i] ELSE undefined

\* the network a search is for: earliest (line 125) for idx 0, else the loop's
SearchedNetwork(i) == ElementAt(networks, IF i = 0 THEN 1 ELSE i)

\* ------------------------------------------------------------- transitions
\* the invocation ends by an exception: the generator's frames are gone
Fail(err) ==
  /\ pc' = "failed"
  /\ error' = err
  /\ networks' = <<>>
  /\ networkGenealogies' = <<>>
  /\ idx' = 0
  /\ relation' = "ancestor"
  /\ alreadyTried' = <<>>
  /\ candidates' = <<>>
  /\ candIdx' = 0
  /\ matchingCandidate' = undefined
  /\ result' = undefined
  /\ sent' = <<>>
  /\ returnedTried' = <<>>
  /\ asked' = <<>>
  /\ validated' = <<>>

\* lines 238-262 and 285-325: findRelation(rel, networks[i]) runs up to its first
\* Store query; network.id of an undefined network throws inside the try block
\* of line 298, before the template is filled, and ends, as a caught failure
\* does, in the TypeError of line 330
StartSearch(i, rel, edges) ==
  /\ searches' = Append(searches, [relation |-> rel, network |-> SearchedNetwork(i)])
  /\ confirmed' = {}
  /\ IF SearchedNetwork(i) = undefined
     THEN /\ Fail("TypeError")
          /\ UNCHANGED fragmentIndex
     ELSE /\ fragmentIndex < MaxFragmentIndex
          /\ pc' = "query"
          /\ idx' = i
          /\ relation' = rel
          /\ alreadyTried' = <<>>
          /\ candidates' = <<>>
          /\ candIdx' = 0
          /\ matchingCandidate' = undefined
          /\ result' = undefined
          /\ networkGenealogies' = edges
          /\ sent' = <<StoreQuery(rel, SearchedNetwork(i), <<>>, disableIndex,
                                  fragmentIndex)>>
          /\ fragmentIndex' = fragmentIndex + 1
          /\ returnedTried' = <<>>
          /\ asked' = <<>>
          /\ validated' = <<>>
          /\ UNCHANGED <<networks, error>>

\* lines 340-348: the validator starts on the page of candidates
StartValidation(page) ==
  IF Len(page) = 0
  THEN /\ pc' = "validated"
       /\ candIdx' = 0
       /\ asked' = <<>>
       /\ UNCHANGED validated
  ELSE /\ pc' = "web3"
       /\ candIdx' = 1
       /\ asked' = <<Web3Request(page[1])>>
       /\ validated' = Append(validated, page[1].id)

\* lines 343-358: candidates[candIdx] is no match: the for-of loop goes on to
\* the next candidate, or ends and the validator returns undefined
NoMatch ==
  IF candIdx < Len(candidates)
  THEN /\ candIdx' = candIdx + 1
       /\ asked' = Append(asked, Web3Request(candidates[candIdx + 1]))
       /\ validated' = Append(validated, candidates[candIdx + 1].id)
       /\ UNCHANGED <<pc, matchingCandidate>>
  ELSE /\ matchingCandidate' = undefined
       /\ pc' = "validated"
       /\ UNCHANGED <<candIdx, asked, validated>>

\* process is called on a sparse batch with a Store that holds no candidate, or
\* on a batch without holes with a Store that holds every network
Init ==
  /\ \/ /\ store = {}
        /\ input \in SeqsUpTo(BatchEntries, MaxLoneBatchLen)
        /\ disableIndex \in BOOLEAN
     \/ /\ store = Networks
        /\ input \in SeqsUpTo(Networks, MaxBatchLen)
        /\ disableIndex = FALSE
  /\ chain \in Chains
  /\ fragmentIndex = 0
  /\ peerQueries = 0
  /\ pc = "start"
  /\ networks = <<>>
  /\ networkGenealogies = <<>>
  /\ idx = 0
  /\ relation = "ancestor"
  /\ alreadyTried = <<>>
  /\ candidates = <<>>
  /\ candIdx = 0
  /\ matchingCandidate = undefined
  /\ result = undefined
  /\ error = NoError
  /\ loaded = <<>>
  /\ loadCalls = 0
  /\ thrown = NoError
  /\ pairwise = <<>>
  /\ confirmed = {}
  /\ found = <<>>
  /\ searches = <<>>
  /\ sent = <<>>
  /\ returnedTried = <<>>
  /\ asked = <<>>
  /\ validated = <<>>

\* lines 114-123: the empty batch returns at once; otherwise collectNetworks
Process ==
  /\ pc = "start"
  /\ IF Len(input) = 0
     THEN /\ pc' = "done"
          /\ UNCHANGED <<networks, networkGenealogies, pairwise>>
     ELSE /\ pc' = "collected"
          /\ networks' = collectNetworks(input).networks
          /\ networkGenealogies' = collectNetworks(input).networkGenealogies
          /\ pairwise' = collectNetworks(input).networkGenealogies
  /\ UNCHANGED <<envVars, idx, searchVars, result, error, loaded, loadCalls,
                 thrown, confirmed, found, fragmentIndex, searches, traceVars>>

\* lines 125-126: the search for an ancestor of the earliest network
FindEarliest ==
  /\ pc = "collected"
  /\ StartSearch(0, "ancestor", networkGenealogies)
  /\ UNCHANGED <<envVars, loaded, loadCalls, thrown, pairwise, found>>

\* lines 254-267 and 299-331: the Store answers the query with a page
StoreQueryReturns ==
  /\ pc = "query"
  /\ LET request == sent[Len(sent)]
     IN  \E page \in Pages(request.alreadyTried) :
           LET tried == NextAlreadyTried(request.alreadyTried, page)
               got   == queryNextPossiblyRelatedNetworks(StoreResult(page, tried))
           IN  /\ candidates' = got.networks
               /\ alreadyTried' = got.alreadyTried
               /\ returnedTried' = Append(returnedTried, tried)
               /\ StartValidation(got.networks)
  /\ matchingCandidate' = undefined
  /\ UNCHANGED <<envVars, networks, networkGenealogies, idx, relation, result,
                 error, loaded, loadCalls, historyVars, fragmentIndex, searches, sent>>

\* lines 298-331: the Store query fails; what queryNextPossiblyRelatedNetworks
\* makes of the failure decides whether the search ends or goes on
StoreQueryFails ==
  /\ pc = "query"
  /\ LET got == queryNextPossiblyRelatedNetworks(StoreFailure)
     IN  IF got.threw # NoError
         THEN Fail(got.threw)
         ELSE /\ candidates' = got.networks
              /\ alreadyTried' = got.alreadyTried
              /\ StartValidation(got.networks)
              /\ matchingCandidate' = undefined
              /\ UNCHANGED <<networks, networkGenealogies, idx, relation, result,
                             error, sent, returnedTried>>
  /\ thrown' = "StoreQueryError"
  /\ UNCHANGED <<envVars, loaded, loadCalls, pairwise, confirmed, found,
                 fragmentIndex, searches>>

\* lines 343-358: the chain answers the eth_getBlockByNumber request made for
\* candidates[candIdx]
ChainResponds ==
  /\ pc = "web3"
  /\ \E response \in ChainResponses(asked[Len(asked)].params[1]) :
       IF Matches(response, candidates[candIdx])
       THEN /\ matchingCandidate' = MatchedCandidate(candidates, candIdx)
            /\ pc' = "validated"
            /\ UNCHANGED <<candIdx, asked, validated>>
       ELSE NoMatch
  /\ confirmed' =
       IF chain[candidates[candIdx].historicBlock.height]
            = candidates[candIdx].historicBlock.hash
       THEN confirmed \cup {candidates[candIdx].id}
       ELSE confirmed
  /\ UNCHANGED <<envVars, networks, networkGenealogies, idx, relation,
                 alreadyTried, candidates, result, error, loaded, loadCalls,
                 thrown, pairwise, found, fragmentIndex, searches, sent,
                 returnedTried>>

\* line 344: the web3 request fails; what the validator makes of the failure
\* decides whether the invocation ends or the loop goes on
ChainFails ==
  /\ pc = "web3"
  /\ LET threw == RaisedInValidator("ChainQueryError")
     IN  IF threw # NoError
         THEN Fail(threw)
         ELSE /\ NoMatch
              /\ UNCHANGED <<networks, networkGenealogies, idx, relation,
                             alreadyTried, candidates, result, error, sent,
                             returnedTried>>
  /\ thrown' = "ChainQueryError"
  /\ UNCHANGED <<envVars, loaded, loadCalls, pairwise, confirmed, found,
                 fragmentIndex, searches>>

\* lines 269-275 and 254-262: return the match, query again with the
\* alreadyTried the last query returned, or give up
LoopCheck ==
  /\ pc = "validated"
  /\ IF matchingCandidate # undefined
     THEN /\ result' = matchingCandidate
          /\ pc' = "returned"
          /\ UNCHANGED <<sent, fragmentIndex>>
     ELSE IF LoopAgain(candidates)
          THEN /\ fragmentIndex < MaxFragmentIndex
               /\ pc' = "query"
               /\ sent' = Append(sent, StoreQuery(relation, SearchedNetwork(idx),
                                                  alreadyTried, disableIndex,
                                                  fragmentIndex))
               /\ fragmentIndex' = fragmentIndex + 1
               /\ UNCHANGED result
          ELSE /\ result' = undefined
               /\ pc' = "returned"
               /\ UNCHANGED <<sent, fragmentIndex>>
  /\ UNCHANGED <<envVars, networks, networkGenealogies, idx, searchVars,
                 error, loaded, loadCalls, historyVars, searches, returnedTried,
                 asked, validated>>

\* lines 126-157: process takes the search's result and goes on to the next
\* search, or hands the edge list to resources.load
Resume ==
  /\ pc = "returned"
  /\ LET network == SearchedNetwork(idx)
         pushed  ==
           IF idx = 0 \/ result = undefined THEN networkGenealogies
           ELSE IF relation = "ancestor"
                THEN Append(networkGenealogies, AncestorEdge(result, network))
                ELSE Append(networkGenealogies, DescendantEdge(network, result))
         last    == idx # 0 /\ relation = "descendant" /\ LoopDone(idx, Len(networks))
     IN  /\ IF idx = 0
            THEN StartSearch(1, "ancestor", pushed)
            ELSE IF relation = "ancestor"
                 THEN StartSearch(idx, "descendant", pushed)
                 ELSE IF ~last
                      THEN StartSearch(idx + 1, "ancestor", pushed)
                      ELSE /\ pc' = "load"
                           /\ networkGenealogies' = pushed
                           /\ confirmed' = {}
                           /\ sent' = <<>>
                           /\ returnedTried' = <<>>
                           /\ asked' = <<>>
                           /\ validated' = <<>>
                           /\ UNCHANGED <<networks, idx, searchVars, result, error,
                                          fragmentIndex, searches>>
         /\ loaded' = IF last THEN pushed ELSE loaded
         /\ loadCalls' = IF last THEN loadCalls + 1 ELSE loadCalls
         /\ found' = IF idx = 0 \/ result = undefined THEN found
                     ELSE Append(found, [relation |-> relation, network |-> network,
                                         found |-> result,
                                         confirmed |-> result.id \in confirmed])
  /\ UNCHANGED <<envVars, thrown, pairwise>>

\* lines 154-160: resources.load returns and process returns its results
LoadReturns ==
  /\ pc = "load"
  /\ pc' = "done"
  /\ UNCHANGED <<envVars, networks, networkGenealogies, idx, searchVars, result,
                 error, loaded, loadCalls, historyVars, fragmentIndex, searches,
                 traceVars>>

Next ==
  \/ Process
  \/ FindEarliest
  \/ StoreQueryReturns
  \/ StoreQueryFails
  \/ ChainResponds
  \/ ChainFails
  \/ LoopCheck
  \/ Resume
  \/ LoadReturns

Spec == Init /\ [][Next]_vars

\* ------------------------------------------------------- two invocations
\* lines 277 and 299-305: a second invocation of process, interleaved with this
\* one effect by effect, fills the template of its next Store query and so
\* counts the module's fragmentIndex up
PeerQuery ==
  /\ peerQueries < MaxPeerQueries
  /\ fragmentIndex < MaxFragmentIndex
  /\ peerQueries' = peerQueries + 1
  /\ fragmentIndex' = fragmentIndex + 1
  /\ UNCHANGED <<input, chain, store, disableIndex, pc, networks, networkGenealogies,
                 idx, searchVars, result, error, loaded, loadCalls, historyVars,
                 searches, traceVars>>

\* this invocation is given a batch of at most one entry
InitTwo ==
  /\ Init
  /\ Len(input) <= 1

NextTwo ==
  \/ Process
  \/ FindEarliest
  \/ StoreQueryReturns
  \/ StoreQueryFails
  \/ ChainResponds
  \/ ChainFails
  \/ LoopCheck
  \/ Resume
  \/ LoadReturns
  \/ PeerQuery

SpecTwo == InitTwo /\ [][NextTwo]_vars

\* ------------------------------------------------------------------ claims
\* every entry of the batch is undefined (the empty batch included)
AllAbsent(batch) == \A i \in 1..Len(batch) : batch[i] = undefined

\* the edge the loop owes to one entry of the history found
EdgeOfFound(f) ==
  IF f.relation = "ancestor"
  THEN [ancestor |-> f.found, descendant |-> f.network]
  ELSE [ancestor |-> f.network, descendant |-> f.found]

\* every network a search returned lies strictly below (ancestor) or strictly
\* above (descendant) the network it was searched for
FoundInHeightOrder ==
  \A i \in 1..Len(found) :
    IF found[i].relation = "ancestor"
    THEN HeightOf(found[i].found.id) < HeightOf(found[i].network.id)
    ELSE HeightOf(found[i].found.id) > HeightOf(found[i].network.id)

\* the pairs <<ancestor id, descendant id>> of an edge list
IdPairs(edges) == {<<edges[i].ancestor.id, edges[i].descendant.id>> : i \in 1..Len(edges)}

RECURSIVE Closure(_, _)
\* the relation R closed under composition, by n rounds of squaring
Closure(R, n) ==
  IF n = 0 THEN R
  ELSE LET T == R \cup {pq \in NetworkIds \X NetworkIds :
                          \E m \in NetworkIds : <<pq[1], m>> \in R /\ <<m, pq[2]>> \in R}
       IN  Closure(T, n - 1)

\* no directed cycle (and so no self-edge) among the pairs
Acyclic(pairs) ==
  \A id \in NetworkIds : <<id, id>> \notin Closure(pairs, Cardinality(NetworkIds))

\* C1: when a Store candidate query fails, the invocation fails with that same
\* StoreQueryError.
C1_StoreErrorPropagates ==
  thrown = "StoreQueryError" => (pc = "failed" /\ error = "StoreQueryError")

\* C2: once a Store query or a chain query has failed during the searches, the
\* invocation has failed and resources.load has not been, and is never, invoked.
C2_NoLoadAfterFailure ==
  thrown # NoError => (pc = "failed" /\ loadCalls = 0 /\ loaded = <<>>)

\* a search fails after earlier searches of the same invocation found relations
C2_Witness ==
  /\ thrown = "StoreQueryError"
  /\ pc = "failed"
  /\ Len(found) >= 2

\* C3: a batch whose entries are all absent makes process a no-op that ends
\* normally: no Store query, no chain query, no load, no error.
C3_AllAbsentIsNoOp ==
  AllAbsent(input) =>
    /\ pc \in {"start", "collected", "done"}
    /\ error = NoError
    /\ loadCalls = 0

\* C4: the edge list handed to load is the pairwise edges of collectNetworks
\* followed by one edge found -> N for every ancestor the loop found for a
\* network N and one edge N -> found for every descendant, and nothing else.
C4_LoadedEdges ==
  pc = "load" =>
    /\ loadCalls = 1
    /\ loaded = pairwise \o [i \in 1..Len(found) |-> EdgeOfFound(found[i])]
    /\ IdPairs(loaded) =
         IdPairs(pairwise)
           \cup {<<found[i].found.id, found[i].network.id>> :
                   i \in {j \in 1..Len(found) : found[j].relation = "ancestor"}}
           \cup {<<found[i].network.id, found[i].found.id>> :
                   i \in {j \in 1..Len(found) : found[j].relation = "descendant"}}

\* a load of a pairwise edge, an ancestor edge and a descendant edge
C4_Witness ==
  /\ pc = "load"
  /\ Len(pairwise) > 0
  /\ \E i, j \in 1..Len(found) :
       found[i].relation = "ancestor" /\ found[j].relation = "descendant"

\* C5: no <<ancestor id, descendant id>> pair occurs twice in the edge list
\* handed to load (here on the runs whose found networks are in height order).
C5_LoadedDeduplicated ==
  (pc = "load" /\ FoundInHeightOrder) =>
    \A i, j \in 1..Len(loaded) :
      i # j => <<loaded[i].ancestor.id, loaded[i].descendant.id>>
                 # <<loaded[j].ancestor.id, loaded[j].descendant.id>>

\* C6, as claimed: every edge handed to load, the pairwise ones included, has a
\* network whose recorded hash an earlier chain response at its height equalled.
C6_EveryEdgeConfirmed ==
  pc = "load" =>
    \A i \in 1..Len(loaded) :
      \E j \in 1..Len(found) :
        /\ found[j].confirmed
        /\ found[j].found \in {loaded[i].ancestor, loaded[i].descendant}

\* C6, amended: every edge handed to load behind the pairwise edges joins a
\* network of the batch to a found network whose recorded hash an earlier chain
\* response at its recorded height equalled.
C6_CrossEdgesConfirmed ==
  pc = "load" =>
    /\ Len(loaded) = Len(pairwise) + Len(found)
    /\ \A i \in 1..Len(found) :
         LET edge == loaded[Len(pairwise) + i]
         IN  /\ found[i].confirmed
             /\ chain[HeightOf(found[i].found.id)] = HashOf(found[i].found.id)
             /\ IF found[i].relation = "ancestor"
                THEN edge.ancestor = found[i].found
                ELSE edge.descendant = found[i].found

\* a load that carries an edge to a found network
C6_Witness ==
  /\ pc = "load"
  /\ Len(loaded) > Len(pairwise)

\* C7: the edges handed to load have no directed cycle and no self-edge (here
\* on the runs whose found networks are in height order).
C7_LoadedIsDag ==
  (pc = "load" /\ FoundInHeightOrder) => Acyclic(IdPairs(loaded))

\* the subsequence of ids recorded at height h
IdsAtHeight(ids, h) == SelectSeq(ids, LAMBDA id : HeightOf(id) = h)

\* the ids of the present entries of the input, in input order
PresentIds ==
  LET present == FilterPresent(input)
  IN  [i \in 1..Len(present) |-> present[i].id]

\* the ids of the sorted batch
NetworkIdsOf(ns) == [i \in 1..Len(ns) |-> ns[i].id]

\* the edges i -> i+1 of the adjacent pairs of ns whose two ids differ
AdjacentDistinctPairs(ns) ==
  SelectSeq([i \in 1..(Len(ns) - 1) |-> [ancestor |-> ns[i], descendant |-> ns[i + 1]]],
            LAMBDA e : e.ancestor.id # e.descendant.id)

\* C8: collectNetworks returns the present entries, each once per occurrence,
\* ascending by recorded height with equal heights in input order, and each
\* pairwise edge goes from a height to one not below it, between distinct ids.
C8_CollectSorted ==
  pc = "collected" =>
    /\ \A i \in 1..Len(networks) : networks[i] # undefined
    /\ Len(networks) = Len(PresentIds)
    /\ \A i, j \in 1..Len(networks) :
         i < j => HeightOf(networks[i].id) <= HeightOf(networks[j].id)
    /\ \A h \in Heights :
         IdsAtHeight(NetworkIdsOf(networks), h) = IdsAtHeight(PresentIds, h)
    /\ \A i \in 1..Len(networkGenealogies) :
         /\ HeightOf(networkGenealogies[i].ancestor.id)
              <= HeightOf(networkGenealogies[i].descendant.id)
         /\ networkGenealogies[i].ancestor.id # networkGenealogies[i].descendant.id

\* a sparse batch that the sort reorders, with two networks at one height
C8_Witness ==
  /\ pc = "collected"
  /\ \E i \in 1..Len(input) : input[i] = undefined
  /\ PresentIds = <<"n3", "n1">>
  /\ NetworkIdsOf(networks) = <<"n1", "n3">>

\* C9: the pairwise edges are, in order, the edges i -> i+1 of exactly those
\* adjacent pairs of the sorted batch whose ids differ.
C9_AdjacentPairs ==
  pc = "collected" => networkGenealogies = AdjacentDistinctPairs(networks)

\* a run of duplicates is collapsed and the edge to the next network is kept
C9_Witness ==
  /\ pc = "collected"
  /\ NetworkIdsOf(networks) = <<"n1", "n1", "n3">>
  /\ networkGenealogies = <<[ancestor |-> [id |-> "n1"], descendant |-> [id |-> "n3"]]>>

\* a candidate's recorded hash is the hash the chain reports at its height
OnChain(candidate) ==
  chain[candidate.historicBlock.height] = candidate.historicBlock.hash

\* the first candidate of the page that is on the chain, undefined without one
FirstOnChain(cands) ==
  IF \E i \in 1..Len(cands) : OnChain(cands[i])
  THEN LET first == CHOOSE i \in 1..Len(cands) :
                      /\ OnChain(cands[i])
                      /\ \A j \in 1..(i - 1) : ~OnChain(cands[j])
       IN  [id |-> cands[first].id]
  ELSE undefined

\* C10: the validator returns the first candidate, in list order, whose
\* recorded hash is the hash the chain reports at its recorded height, and
\* undefined when there is none; a missing block or response is no error.
C10_FirstMatch ==
  pc = "validated" =>
    /\ matchingCandidate = FirstOnChain(candidates)
    /\ error = NoError
    /\ thrown = NoError

\* candidates [mismatch, match, match]: the second is returned
C10_Witness ==
  /\ pc = "validated"
  /\ Len(candidates) = 3
  /\ ~OnChain(candidates[1])
  /\ OnChain(candidates[2])
  /\ OnChain(candidates[3])
  /\ matchingCandidate = [id |-> candidates[2].id]

\* the ids of a list of networks are pairwise different
DistinctIds(list) ==
  \A i, j \in 1..Len(list) : i # j => list[i].id # list[j].id

\* C11: against a Store that honours the exclusion list and holds finitely many
\* candidates, a findRelation call makes at most one Store query per candidate
\* the Store holds and one more for the final empty answer: every query but
\* the last has added a candidate of the Store to the exclusion list, which
\* never names a candidate twice.
C11_QueriesBounded ==
  /\ Len(sent) <= Cardinality(store) + 1
  /\ Len(sent) <= Len(alreadyTried) + 1
  /\ DistinctIds(alreadyTried)
  /\ \A i \in 1..Len(alreadyTried) : \E c \in store : c.id = alreadyTried[i].id

\* a search that takes the Store's three candidates one page each and ends on
\* the fourth, empty answer
C11_Witness ==
  /\ pc = "returned"
  /\ result = undefined
  /\ Len(sent) = Cardinality(store) + 1
  /\ Cardinality(store) = 3

\* one ancestor search, then one descendant search, for every network of ns in
\* order
TwoSearchesEach(ns) ==
  [k \in 1..(2 * Len(ns)) |->
     [relation |-> IF k % 2 = 1 THEN "ancestor" ELSE "descendant",
      network  |-> ns[(k + 1) \div 2]]]

\* C12: when process hands its edges to load for a non-empty sorted batch, the
\* searches it has started are exactly one ancestor search followed by one
\* descendant search for every network of the sorted batch, in sorted order,
\* and no other search: 2 x |sorted batch| searches.
C12_TwoSearchesPerNetwork ==
  (pc = "load" /\ Len(networks) > 0) =>
    /\ Len(searches) = 2 * Len(networks)
    /\ searches = TwoSearchesEach(networks)

\* process has started a search of each relation for every network of ns
EverySearched(ns) ==
  \A i \in 1..Len(ns) :
    \A rel \in {"ancestor", "descendant"} :
      \E k \in 1..Len(searches) :
        searches[k] = [relation |-> rel, network |-> ns[i]]

\* C13: resources.load is invoked at most once; when it has been invoked every
\* search of the batch is over and no Store or chain query is in flight or
\* follows, and it was handed the whole accumulated edge list; an invocation
\* that ends normally on a non-empty batch has invoked it exactly once.
C13_SingleBulkLoad ==
  /\ loadCalls <= 1
  /\ loadCalls = 0 => loaded = <<>>
  /\ loadCalls = 1 =>
       /\ pc \in {"load", "done"}
       /\ EverySearched(networks)
       /\ Len(searches) >= 2 * Len(networks)
       /\ sent = <<>> /\ asked = <<>>
       /\ loaded = networkGenealogies
       /\ Len(loaded) = Len(pairwise) + Len(found)
  /\ (pc = "done" /\ Len(input) > 0) => loadCalls = 1

\* an invocation on a non-empty batch ends normally after one load of the
\* empty edge list
C13_Witness ==
  /\ pc = "done"
  /\ Len(networks) > 0
  /\ loadCalls = 1
  /\ loaded = <<>>

\* C14: the Store queries of an invocation are the ones it sends when it runs
\* alone, however far another invocation has got: each carries the fragment
\* name filled with the number of the queries this invocation sent before it.
C14_QueriesAsWhenAlone ==
  \A k \in 1..Len(sent) :
    sent[k].fragment =
      <<"Possible", relation, (fragmentIndex - peerQueries) - Len(sent) + (k - 1)>>

\* C15: in one findRelation call the first Store query carries the empty
\* alreadyTried, every later one carries exactly the alreadyTried the Store
\* returned to the query before it, the lists sent grow strictly, and (the
\* Store honouring the list) no candidate id is asked of the chain twice.
C15_TriedThreaded ==
  /\ Len(returnedTried) \in {Len(sent), Len(sent) - 1}
  /\ Len(sent) >= 1 => sent[1].alreadyTried = <<>>
  /\ \A k \in 2..Len(sent) :
       /\ sent[k].alreadyTried = returnedTried[k - 1]
       /\ Len(sent[k].alreadyTried) > Len(sent[k - 1].alreadyTried)
  /\ \A i, j \in 1..Len(validated) : i # j => validated[i] # validated[j]

\* a search of three queries that has asked the chain about three candidates
C15_Witness ==
  /\ pc = "web3"
  /\ Len(sent) = 3
  /\ Len(validated) = 3
  /\ sent[3].alreadyTried = returnedTried[2]
  /\ Len(returnedTried[2]) = 2

\* C16: a findRelation call returns one network or none, at the first decisive
\* point: a returned network is the candidate of the last page the validator
\* matched, with no Store query and no chain query behind that match; a call
\* returns nothing only behind an empty page, for which no chain query was
\* made; and a further Store query follows only a non-empty page without a
\* match.
C16_StopsAtFirstDecision ==
  /\ (pc = "returned" /\ result # undefined) =>
       /\ candIdx \in 1..Len(candidates)
       /\ result = [id |-> candidates[candIdx].id]
       /\ OnChain(candidates[candIdx])
       /\ Len(asked) = candIdx
       /\ Len(returnedTried) = Len(sent)
  /\ (pc = "returned" /\ result = undefined) =>
       /\ candidates = <<>>
       /\ asked = <<>>
       /\ Len(returnedTried) = Len(sent)
  /\ (pc = "query" /\ Len(sent) > 1) =>
       /\ candidates # <<>>
       /\ matchingCandidate = undefined
       /\ Len(asked) = Len(candidates)
  /\ (pc = "validated" /\ candidates = <<>>) => asked = <<>>

\* a search returns the first candidate of its second page, which has more
\* candidates behind it
C16_Witness ==
  /\ pc = "returned"
  /\ result # undefined
  /\ Len(sent) = 2
  /\ candIdx = 1
  /\ Len(candidates) = 2
  /\ Len(asked) = 1

\* the position of the first candidate of the page that is on the chain, the
\* length of the page without one
FirstOnChainOrLen(cands) ==
  IF \E i \in 1..Len(cands) : OnChain(cands[i])
  THEN CHOOSE i \in 1..Len(cands) :
         OnChain(cands[i]) /\ \A j \in 1..(i - 1) : ~OnChain(cands[j])
  ELSE Len(cands)

\* C17: the validator asks the chain about one candidate at a time in list
\* order, by one eth_getBlockByNumber at the candidate's recorded height, and
\* about none behind the first match: when it returns it has made as many
\* requests as the position of the first matching candidate, or the length of
\* the page without one.
C17_OneQueryPerCandidate ==
  /\ pc \in {"web3", "validated"} =>
       /\ Len(asked) <= Len(candidates)
       /\ \A i \in 1..Len(asked) :
            /\ asked[i].method = "eth_getBlockByNumber"
            /\ asked[i].params = <<HeightOf(candidates[i].id), FALSE>>
       /\ \A i \in 1..(Len(asked) - 1) : ~OnChain(candidates[i])
  /\ pc = "web3" => Len(asked) = candIdx
  /\ pc = "validated" => Len(asked) = FirstOnChainOrLen(candidates)

\* a page [mismatch, match, mismatch]: two requests, none for the third
C17_Witness ==
  /\ pc = "validated"
  /\ Len(candidates) = 3
  /\ ~OnChain(candidates[1])
  /\ OnChain(candidates[2])
  /\ ~OnChain(candidates[3])
  /\ Len(asked) = 2
  /\ asked[1].params[1] # asked[2].params[1]

\* C18: once a web3 request has failed (as opposed to reporting no block), the
\* validator asks about no further candidate and the search about no further
\* page: the invocation has failed with the ChainQueryError, and nothing was
\* loaded.
C18_ChainErrorPropagates ==
  thrown = "ChainQueryError" =>
    /\ pc = "failed"
    /\ error = "ChainQueryError"
    /\ result = undefined
    /\ loadCalls = 0

\* a web3 request fails in the third search of the invocation or a later one
C18_Witness ==
  /\ thrown = "ChainQueryError"
  /\ pc = "failed"
  /\ error = "ChainQueryError"
  /\ Len(searches) >= 3

\* a hash in lower-case hex digits
Normalized(hash) == IF hash = "0xAA" THEN "0xaa" ELSE hash

\* the chain reports, at the candidate's height, the candidate's recorded
\* hash, whatever the case of the hex digits
OnChainUpToCase(candidate) ==
  /\ chain[candidate.historicBlock.height] # NoBlock
  /\ Normalized(chain[candidate.historicBlock.height])
       = Normalized(candidate.historicBlock.hash)

\* C19: the validator compares the hashes after normalisation of case and
\* format: it returns the first candidate whose recorded hash and the hash
\* the chain reports at its height are the same hash up to letter case.
C19_MatchesUpToCase ==
  pc = "validated" =>
    matchingCandidate =
      IF \E i \in 1..Len(candidates) : OnChainUpToCase(candidates[i])
      THEN [id |-> candidates[CHOOSE i \in 1..Len(candidates) :
                                /\ OnChainUpToCase(candidates[i])
                                /\ \A j \in 1..(i - 1) :
                                     ~OnChainUpToCase(candidates[j])].id]
      ELSE undefined

====
